---- MODULE Spec2Model ----
(***************************************************************************)
(* Model of slackeventsapi/server.py: the SlackServer request pipeline.    *)
(* A request is verified (method, timestamp window, HMAC signature over    *)
(* the raw body), then parsed and emitted to the listener channel named by *)
(* its discriminator.                                                      *)
(*                                                                         *)
(* Text is a sequence of one-character strings, bytes are a sequence of    *)
(* integers 0..255, so that str(), int(), str.encode(), ord(), json.loads  *)
(* and the form decoding are computed character by character.              *)
(***************************************************************************)
EXTENDS Integers, Sequences, FiniteSets, TLC

(***************************************************************************)
(* Bounds of the model.                                                    *)
(***************************************************************************)
\* hex characters of the model digest (SHA-256 has 64)
DigestHexLen == 3
\* clock resolution: time() is a float, the model clock counts 1/TicksPerSecond s
TicksPerSecond == 2
\* wall-clock second at which the model starts
Epoch == 1000
\* how many clock ticks the model lets pass
MaxTicks == 1
\* how many listeners the application registers during setup
MaxListeners == 1

\* how many requests a concurrent server handles at a time
MaxWorkers == 2

(***************************************************************************)
(* Characters.                                                             *)
(***************************************************************************)
Quote == "\""

Backslash == "\\"

\* the grave accent (code point 96), which a string literal cannot hold
Backtick == "\\x60"

\* the printable ASCII characters, code points 32..126, in order
Printable ==
  <<" ", "!", Quote, "#", "$", "%", "&", "'", "(", ")", "*", "+", ",", "-", ".", "/",
    "0", "1", "2", "3", "4", "5", "6", "7", "8", "9", ":", ";", "<", "=", ">", "?",
    "@", "A", "B", "C", "D", "E", "F", "G", "H", "I", "J", "K", "L", "M", "N", "O",
    "P", "Q", "R", "S", "T", "U", "V", "W", "X", "Y", "Z", "[", Backslash, "]", "^", "_",
    Backtick, "a", "b", "c", "d", "e", "f", "g", "h", "i", "j", "k", "l", "m", "n", "o",
    "p", "q", "r", "s", "t", "u", "v", "w", "x", "y", "z", "{", "|", "}", "~">>

\* one character outside ASCII: U+00E9, as a latin-1 decoded header can carry it
NonAscii == "\\xe9"

Chars == {Printable[i] : i \in 1..Len(Printable)} \cup {NonAscii}

OrdTable ==
  [c \in Chars |->
     IF c = NonAscii THEN 233
     ELSE 31 + (CHOOSE i \in 1..Len(Printable) : Printable[i] = c)]

\* ord(c)
Ord(c) == OrdTable[c]

\* chr(n) for a printable ASCII code point
Chr(n) == Printable[n - 31]

IsAscii(s) == \A i \in 1..Len(s) : Ord(s[i]) < 128

Digits == <<"0", "1", "2", "3", "4", "5", "6", "7", "8", "9">>

IsDigit(c) == \E i \in 1..10 : Digits[i] = c

DigitVal(c) == (CHOOSE i \in 1..10 : Digits[i] = c) - 1

HexDigits == <<"0", "1", "2", "3", "4", "5", "6", "7", "8", "9", "a", "b", "c", "d", "e", "f">>

(***************************************************************************)
(* Python built-ins the pipeline calls.                                    *)
(***************************************************************************)
RECURSIVE BitXor(_, _)
\* x ^ y on non-negative integers
BitXor(x, y) ==
  IF x = 0 THEN y
  ELSE IF y = 0 THEN x
  ELSE ((x + y) % 2) + 2 * BitXor(x \div 2, y \div 2)

RECURSIVE BitOr(_, _)
\* x | y on non-negative integers
BitOr(x, y) ==
  IF x = 0 THEN y
  ELSE IF y = 0 THEN x
  ELSE (IF (x % 2) + (y % 2) > 0 THEN 1 ELSE 0) + 2 * BitOr(x \div 2, y \div 2)

RECURSIVE StrNat(_)
\* str(n) for n >= 0: the decimal digits, no sign, no leading zero
StrNat(n) ==
  IF n < 10 THEN <<Digits[n + 1]>>
  ELSE StrNat(n \div 10) \o <<Digits[(n % 10) + 1]>>

\* str(n) for an int
StrInt(n) == IF n < 0 THEN <<"-">> \o StrNat(0 - n) ELSE StrNat(n)

\* A header value as request.headers.get returns it: None when the header is
\* missing, the text otherwise.
Absent == [present |-> FALSE, s |-> <<>>]

Text(s) == [present |-> TRUE, s |-> s]

\* str(h) of a header value: the text itself, "None" for None
PyStr(h) == IF h.present THEN h.s ELSE <<"N", "o", "n", "e">>

RECURSIVE LStrip(_)
LStrip(s) == IF Len(s) > 0 /\ s[1] = " " THEN LStrip(Tail(s)) ELSE s

RECURSIVE RStrip(_)
RStrip(s) ==
  IF Len(s) > 0 /\ s[Len(s)] = " " THEN RStrip(SubSeq(s, 1, Len(s) - 1)) ELSE s

RECURSIVE DigitsVal(_, _)
\* the value of a digit string, most significant digit first
DigitsVal(s, acc) ==
  IF Len(s) = 0 THEN acc ELSE DigitsVal(Tail(s), 10 * acc + DigitVal(s[1]))

\* int(h): surrounding blanks are stripped, one sign is allowed, then decimal
\* digits only; None raises TypeError, anything else ValueError.
PyInt(h) ==
  IF ~h.present THEN [ok |-> FALSE, n |-> 0, exc |-> "TypeError"]
  ELSE
    LET t == RStrip(LStrip(h.s))
        signed == Len(t) > 0 /\ t[1] \in {"+", "-"}
        d == IF signed THEN Tail(t) ELSE t
    IN  IF Len(d) > 0 /\ \A i \in 1..Len(d) : IsDigit(d[i])
        THEN [ok |-> TRUE,
              n |-> IF signed /\ t[1] = "-" THEN 0 - DigitsVal(d, 0) ELSE DigitsVal(d, 0),
              exc |-> "none"]
        ELSE [ok |-> FALSE, n |-> 0, exc |-> "ValueError"]

RECURSIVE EncodeRange(_, _, _)
\* the UTF-8 bytes of s[lo..hi], by halves
EncodeRange(s, lo, hi) ==
  IF lo > hi THEN <<>>
  ELSE IF lo = hi THEN (IF s[lo] = NonAscii THEN <<195, 169>> ELSE <<Ord(s[lo])>>)
  ELSE EncodeRange(s, lo, (lo + hi) \div 2) \o EncodeRange(s, ((lo + hi) \div 2) + 1, hi)

\* str.encode(s): the UTF-8 bytes of a text
Encode(s) == EncodeRange(s, 1, Len(s))

(***************************************************************************)
(* hmac.new(key, msg, hashlib.sha256).hexdigest()                          *)
(* A keyed digest of DigestHexLen lower-case hex characters stands for     *)
(* HMAC-SHA256: every byte of the key and of the message enters it with a  *)
(* weight its position gives, so that two messages that differ in one byte *)
(* have different digests.                                                 *)
(***************************************************************************)
RECURSIVE Pow16(_)
Pow16(n) == IF n = 0 THEN 1 ELSE 16 * Pow16(n - 1)

DigestModulus == Pow16(DigestHexLen)

RECURSIVE Absorb(_, _, _)
\* the sum over bytes[lo..hi] of each byte weighted by its position, by halves
Absorb(bytes, lo, hi) ==
  IF lo > hi THEN 0
  ELSE IF lo = hi THEN ((bytes[lo] + 1) * (2 * lo + 1)) % DigestModulus
  ELSE (Absorb(bytes, lo, (lo + hi) \div 2)
        + Absorb(bytes, ((lo + hi) \div 2) + 1, hi)) % DigestModulus

RECURSIVE HexOf(_, _)
\* n as exactly k hex characters
HexOf(n, k) ==
  IF k = 0 THEN <<>> ELSE HexOf(n \div 16, k - 1) \o <<HexDigits[(n % 16) + 1]>>

hexdigest(key, msg) ==
  HexOf((31 * Absorb(key, 1, Len(key)) + Absorb(msg, 1, Len(msg)) + 7) % DigestModulus,
        DigestHexLen)

(***************************************************************************)
(* The interpreter the server runs on.  hmac.compare_digest exists from    *)
(* Python 2.7.7 on; sys.version_info[0] tells Python 2 from Python 3.      *)
(***************************************************************************)
Runtimes == {"py3", "py27", "py276"}

has_compare_digest(rt) == rt # "py276"

version_major(rt) == IF rt = "py3" THEN 3 ELSE 2

\* what a Python call gives: a returned boolean, or the exception it raised,
\* and the number of positions of the signature a comparison visited in it
Returned(b) == [ret |-> b, exc |-> "none", visited |-> 0]

Raised(e) == [ret |-> FALSE, exc |-> e, visited |-> 0]

\* the call r, in which a comparison visited n positions
After(n, r) == [r EXCEPT !.visited = n]

\* request.get_data(): the raw bytes of the body
get_data(body) == [i \in 1..Len(body) |-> Ord(body[i])]

\* req = str.encode('v0:' + str(timestamp) + ':') + request.get_data()
basestring(timestamp, body) ==
  Encode(<<"v", "0", ":">> \o PyStr(timestamp) \o <<":">>) \o get_data(body)

\* request_hash = 'v0=' + hmac.new(str.encode(secret), req, sha256).hexdigest()
request_hash(secret, timestamp, body) ==
  <<"v", "0", "=">> \o hexdigest(Encode(secret), basestring(timestamp, body))

\* hmac.compare_digest(a, b) on two str of Python 3: a TypeError unless both
\* are str holding ASCII only, equality otherwise.
\* What it compares it compares without regard to the content: it visits every
\* position of b, against a when the lengths agree and against b itself when
\* they do not.
compare_digest_str(a, b) ==
  IF ~b.present THEN Raised("TypeError")
  ELSE IF ~IsAscii(a) \/ ~IsAscii(b.s) THEN Raised("TypeError")
  ELSE After(Len(b.s), Returned(a = b.s))

\* hmac.compare_digest(bytes(a), bytes(b)) on Python 2: bytes(None) is 'None',
\* bytes(u) of a unicode header encodes it as ASCII or raises.
compare_digest_bytes(a, b) ==
  IF b.present /\ ~IsAscii(b.s) THEN Raised("UnicodeEncodeError")
  ELSE After(Len(PyStr(b)), Returned(a = PyStr(b)))

\* result = 0, before the loop
NothingCompared == [result |-> 0, visited |-> 0]

RECURSIVE xor_accumulate_early_exit(_, _, _, _)
\* the loop left at the first pair that differs
xor_accumulate_early_exit(a, b, i, acc) ==
  IF i > Len(a) \/ i > Len(b) \/ acc.result # 0 THEN acc
  ELSE xor_accumulate_early_exit(a, b, i + 1,
         [result |-> BitOr(acc.result, BitXor(Ord(a[i]), Ord(b[i]))),
          visited |-> acc.visited + 1])

RECURSIVE xor_accumulate(_, _, _, _)
\* for x, y in zip(request_hash, signature): result |= ord(x) ^ ord(y)
\* acc holds result and the number of pairs the loop has visited
xor_accumulate(a, b, i, acc) ==
  IF i > Len(a) \/ i > Len(b) THEN acc
  ELSE xor_accumulate(a, b, i + 1,
         [result |-> BitOr(acc.result, BitXor(Ord(a[i]), Ord(b[i]))),
          visited |-> acc.visited + 1])

\* the explicit comparison of interpreters without hmac.compare_digest
compare_fallback(a, b) ==
  IF ~b.present THEN Raised("TypeError")
  ELSE IF Len(a) # Len(b.s) THEN Returned(FALSE)
  ELSE LET acc == xor_accumulate(a, b.s, 1, NothingCompared)
       IN  After(acc.visited, Returned(acc.result = 0))

\* verify_signature that compares nothing
verify_signature_unchecked(rt, secret, timestamp, signature, body) == Returned(TRUE)

\* SlackServer.verify_signature(timestamp, signature), the request body and the
\* signing secret made explicit
verify_signature(rt, secret, timestamp, signature, body) ==
  IF has_compare_digest(rt)
  THEN IF version_major(rt) = 2
       THEN compare_digest_bytes(request_hash(secret, timestamp, body), signature)
       ELSE compare_digest_str(request_hash(secret, timestamp, body), signature)
  ELSE compare_fallback(request_hash(secret, timestamp, body), signature)

(***************************************************************************)
(* Python values: str, dict (as json.loads builds it) and list.            *)
(***************************************************************************)
PyStrVal(s) == [t |-> "str", s |-> s]

PyDict(m) == [t |-> "dict", m |-> m]

PyList(items) == [t |-> "list", items |-> items]

PyNone == [t |-> "none"]

\* key in d, for a dict d
HasKey(d, k) == \E i \in 1..Len(d.m) : d.m[i].k = k

\* d[k] for a dict d holding k: a repeated key keeps its last value
Get(d, k) == d.m[CHOOSE i \in 1..Len(d.m) : d.m[i].k = k /\ \A j \in (i + 1)..Len(d.m) : d.m[j].k # k].v

\* sub in s, for two str
IsSubstring(sub, s) ==
  \E i \in 0..(Len(s) - Len(sub)) : SubSeq(s, i + 1, i + Len(sub)) = sub

(***************************************************************************)
(* json.loads, for the JSON of strings without escapes and objects,        *)
(* blanks allowed between tokens.  Anything else is a JSONDecodeError.     *)
(***************************************************************************)
ParseFail == [ok |-> FALSE, v |-> PyNone, next |-> 0]

\* the least element of a non-empty set of integers
Min(S) == CHOOSE x \in S : \A y \in S : x <= y

\* the first index from i on where s holds a character of cs, Len(s) + 1 if none
FirstOf(s, cs, i) == Min({j \in i..Len(s) : s[j] \in cs} \cup {Len(s) + 1})

\* the first index from i on where s holds no blank, Len(s) + 1 if none
SkipBlanks(s, i) == Min({j \in i..Len(s) : s[j] # " "} \cup {Len(s) + 1})

\* the index of the quote closing a string whose text starts at i, 0 if none
StringEnd(s, i) ==
  LET j == FirstOf(s, {Quote, Backslash}, i)
  IN  IF j <= Len(s) /\ s[j] = Quote THEN j ELSE 0

ParseString(s, i) ==
  IF i > Len(s) \/ s[i] # Quote THEN ParseFail
  ELSE LET j == StringEnd(s, i + 1)
       IN  IF j = 0 THEN ParseFail
           ELSE [ok |-> TRUE, v |-> PyStrVal(SubSeq(s, i + 1, j - 1)), next |-> j + 1]

RECURSIVE ParseValue(_, _)
RECURSIVE ParseMembers(_, _, _)
\* the members of an object after its brace or after a comma
ParseMembers(s, i, acc) ==
  LET key == ParseString(s, SkipBlanks(s, i))
      colon == SkipBlanks(s, key.next)
      val == ParseValue(s, SkipBlanks(s, colon + 1))
      after == SkipBlanks(s, val.next)
      members == Append(acc, [k |-> key.v.s, v |-> val.v])
  IN  IF ~key.ok THEN ParseFail
      ELSE IF colon > Len(s) \/ s[colon] # ":" THEN ParseFail
      ELSE IF ~val.ok THEN ParseFail
      ELSE IF after > Len(s) THEN ParseFail
      ELSE IF s[after] = "}" THEN [ok |-> TRUE, v |-> PyDict(members), next |-> after + 1]
      ELSE IF s[after] = "," THEN ParseMembers(s, after + 1, members)
      ELSE ParseFail

ParseValue(s, i) ==
  IF i > Len(s) THEN ParseFail
  ELSE IF s[i] = Quote THEN ParseString(s, i)
  ELSE IF s[i] = "{"
       THEN LET j == SkipBlanks(s, i + 1)
            IN  IF j <= Len(s) /\ s[j] = "}"
                THEN [ok |-> TRUE, v |-> PyDict(<<>>), next |-> j + 1]
                ELSE ParseMembers(s, j, <<>>)
  ELSE ParseFail

\* json.loads(s): the value, or not ok for a JSONDecodeError
json_loads(s) ==
  LET r == ParseValue(s, SkipBlanks(s, 1))
  IN  IF r.ok /\ SkipBlanks(s, r.next) = Len(s) + 1 THEN r ELSE ParseFail

(***************************************************************************)
(* request.form: the fields of an application/x-www-form-urlencoded body.  *)
(***************************************************************************)
HexVal(c) ==
  IF IsDigit(c) THEN DigitVal(c)
  ELSE IF c \in {"a", "A"} THEN 10
  ELSE IF c \in {"b", "B"} THEN 11
  ELSE IF c \in {"c", "C"} THEN 12
  ELSE IF c \in {"d", "D"} THEN 13
  ELSE IF c \in {"e", "E"} THEN 14
  ELSE IF c \in {"f", "F"} THEN 15
  ELSE 0 - 1

\* an escape %XX starts at i
IsEscape(s, i) ==
  /\ i >= 1
  /\ i + 2 <= Len(s)
  /\ s[i] = "%"
  /\ HexVal(s[i + 1]) >= 0
  /\ HexVal(s[i + 2]) >= 0

\* what the character at i gives: the character of an escape that starts
\* there, nothing inside an escape, a blank for '+', itself otherwise
Unquoted(s, i) ==
  IF IsEscape(s, i)
  THEN LET code == 16 * HexVal(s[i + 1]) + HexVal(s[i + 2])
       IN  IF code >= 32 /\ code <= 126 THEN <<Chr(code)>> ELSE <<NonAscii>>
  ELSE IF IsEscape(s, i - 1) \/ IsEscape(s, i - 2) THEN <<>>
  ELSE IF s[i] = "+" THEN <<" ">>
  ELSE <<s[i]>>

RECURSIVE UnquoteRange(_, _, _)
UnquoteRange(s, lo, hi) ==
  IF lo > hi THEN <<>>
  ELSE IF lo = hi THEN Unquoted(s, lo)
  ELSE UnquoteRange(s, lo, (lo + hi) \div 2) \o UnquoteRange(s, ((lo + hi) \div 2) + 1, hi)

\* '+' is a blank and %XX the character of that code; a malformed escape stays
unquote_plus(s) == UnquoteRange(s, 1, Len(s))

\* the first index from i on where s holds c, Len(s) + 1 if none
IndexOf(s, c, i) == FirstOf(s, {c}, i)

\* one key=value part of the body
form_field(part) ==
  LET eq == IndexOf(part, "=", 1)
  IN  [k |-> unquote_plus(SubSeq(part, 1, eq - 1)),
       v |-> unquote_plus(SubSeq(part, eq + 1, Len(part)))]

RECURSIVE form_fields(_, _)
\* the fields of the body from index i on, in order; empty parts are skipped
form_fields(s, i) ==
  IF i > Len(s) THEN <<>>
  ELSE LET amp == IndexOf(s, "&", i)
       IN  (IF amp = i THEN <<>> ELSE <<form_field(SubSeq(s, i, amp - 1))>>)
           \o form_fields(s, amp + 1)

\* request.form
request_form(body) == PyDict(form_fields(body, 1))

\* request.form[k]: the first value of the field
FormGet(form, k) == form.m[CHOOSE i \in 1..Len(form.m) : form.m[i].k = k /\ \A j \in 1..(i - 1) : form.m[j].k # k].v

(***************************************************************************)
(* The constants of server.py.                                             *)
(***************************************************************************)
\* 60 * 5, the seconds a request timestamp may be away from time()
Tolerance == 60 * 5

KeyChallenge == <<"c", "h", "a", "l", "l", "e", "n", "g", "e">>

KeyEvent == <<"e", "v", "e", "n", "t">>

KeyType == <<"t", "y", "p", "e">>

KeyPayload == <<"p", "a", "y", "l", "o", "a", "d">>

ChannelError == <<"e", "r", "r", "o", "r">>

\* the body of the answer to a GET
NotTheSlackbots ==
  <<"T", "h", "e", "s", "e", " ", "a", "r", "e", " ", "n", "o", "t", " ", "t", "h",
    "e", " ", "s", "l", "a", "c", "k", "b", "o", "t", "s", " ", "y", "o", "u", "'",
    "r", "e", " ", "l", "o", "o", "k", "i", "n", "g", " ", "f", "o", "r", ".">>

\* SlackEventAdapterException(msg)
SlackEventAdapterException(msg) ==
  [t |-> "exception", cls |-> "SlackEventAdapterException", msg |-> msg]

\* r, the option list the options endpoint answers with
OptionsList ==
  PyList(<<[text |-> [type |-> "plain_text", text |-> "1:Many Internal"],
            value |-> "1:Many Internal"],
           [text |-> [type |-> "plain_text", text |-> "1:many Argentina"],
            value |-> "1:many Argentina"]>>)

\* SlackServer.get_package_info(): client, python and system, joined by blanks
get_package_info(rt) ==
  <<"slackeventsapi/version", IF version_major(rt) = 3 THEN "Python/3" ELSE "Python/2",
    "system/release">>

(***************************************************************************)
(* Responses.  A view's result is the response it returns, the emit calls  *)
(* it made and the steps it went through; an exception that leaves the     *)
(* view is answered 500 by the framework.                                  *)
(***************************************************************************)
\* the body of the framework's answer to an unhandled exception
InternalServerError == [t |-> "errorpage"]

\* make_response(body, status, headers)
make_response(body, status, headers, emits, steps) ==
  [status |-> status, body |-> body, headers |-> headers, emits |-> emits,
   exc |-> "none", steps |-> steps]

\* an exception leaves the view
Unhandled(exc, emits, steps) ==
  [status |-> 500, body |-> InternalServerError, headers |-> <<>>, emits |-> emits,
   exc |-> exc, steps |-> steps]

\* self.emitter.emit(channel, arg), as a call
EmitCall(channel, arg) == [channel |-> channel, arg |-> arg]

\* response.headers['X-Slack-Powered-By'] = self.package_info
PoweredBy(info) == [name |-> "X-Slack-Powered-By", value |-> info]

ContentTypeJson == [name |-> "content_type", value |-> <<"application/json">>]

(***************************************************************************)
(* bind_route: base_checks and the three views.                            *)
(***************************************************************************)
\* the method compared with a word the framework never gives
method_is_get_lowercase(req) == req.method = "get"

\* request.method == 'GET'
method_is_get(req) == req.method = "GET"

\* the check without abs(): only the past is out of range
timestamp_too_old_only(now, n) ==
  now - n * TicksPerSecond > Tolerance * TicksPerSecond

\* the check with >= for >: the ends of the window are out of range
timestamp_out_of_range_exclusive(now, n) ==
  LET diff == now - n * TicksPerSecond
      abs == IF diff < 0 THEN 0 - diff ELSE diff
  IN  abs >= Tolerance * TicksPerSecond

\* abs(time() - int(req_timestamp)) > 60 * 5, the clock in ticks
timestamp_out_of_range(now, n) ==
  LET diff == now - n * TicksPerSecond
      abs == IF diff < 0 THEN 0 - diff ELSE diff
  IN  abs > Tolerance * TicksPerSecond

\* self.emitter.emit('error', SlackEventAdapterException(msg))
emit_error(msg) == EmitCall(ChannelError, SlackEventAdapterException(msg))

\* base_checks(): passed is its "return True", rv its response otherwise
base_checks(rt, secret, now, req) ==
  IF method_is_get(req)
  THEN [passed |-> FALSE,
        rv |-> make_response(PyStrVal(NotTheSlackbots), 404, <<>>, <<>>, <<"method">>)]
  ELSE
    LET parsed == PyInt(req.timestamp)
        verified == verify_signature(rt, secret, req.timestamp, req.signature, req.body)
    IN  IF ~parsed.ok
        THEN [passed |-> FALSE,
              rv |-> Unhandled(parsed.exc, <<>>, <<"method", "timestamp">>)]
        ELSE IF timestamp_out_of_range(now, parsed.n)
        THEN [passed |-> FALSE,
              rv |-> make_response(PyStrVal(<<>>), 403, <<>>,
                                   <<emit_error("Invalid request timestamp")>>,
                                   <<"method", "timestamp">>)]
        ELSE IF verified.exc # "none"
        THEN [passed |-> FALSE,
              rv |-> Unhandled(verified.exc, <<>>, <<"method", "timestamp", "signature">>)]
        ELSE IF ~verified.ret
        THEN [passed |-> FALSE,
              rv |-> make_response(PyStrVal(<<>>), 403, <<>>,
                                   <<emit_error("Invalid request signature")>>,
                                   <<"method", "timestamp", "signature">>)]
        ELSE [passed |-> TRUE,
              rv |-> make_response(PyNone, 0, <<>>, <<>>,
                                   <<"method", "timestamp", "signature">>)]

\* the challenge looked at only after the event
is_challenge_without_event(event_data) ==
  HasKey(event_data, KeyChallenge) /\ ~HasKey(event_data, KeyEvent)

\* "challenge" in event_data
is_challenge(event_data) == HasKey(event_data, KeyChallenge)

\* the challenge echoed under the header of a dispatch
challenge_response_powered(event_data, steps) ==
  make_response(Get(event_data, KeyChallenge), 200,
                <<ContentTypeJson, PoweredBy(<<>>)>>, <<>>, steps)

\* make_response(event_data.get("challenge"), 200, {"content_type": "application/json"})
challenge_response(event_data, steps) ==
  make_response(Get(event_data, KeyChallenge), 200, <<ContentTypeJson>>, <<>>, steps)

\* the inner event emitted in place of the envelope
emit_inner_event(event_data) ==
  EmitCall(Get(Get(event_data, KeyEvent), KeyType).s, Get(event_data, KeyEvent))

\* self.emitter.emit(event_type, event_data), event_type = event_data["event"]["type"]
emit_event(event_data) ==
  EmitCall(Get(Get(event_data, KeyEvent), KeyType).s, event_data)

\* the event view after base_checks passed
event_dispatch(info, req, steps) ==
  LET loaded == json_loads(req.body)
      event_data == loaded.v
      parsedSteps == Append(steps, "parse")
  IN  IF ~loaded.ok THEN Unhandled("JSONDecodeError", <<>>, parsedSteps)
      ELSE IF event_data.t = "str"
      THEN \* "challenge" in a str is a substring test; the str has neither
           \* .get nor string keys, and without either word the view returns None
           IF IsSubstring(KeyChallenge, event_data.s)
           THEN Unhandled("AttributeError", <<>>, parsedSteps)
           ELSE Unhandled("TypeError", <<>>, parsedSteps)
      ELSE IF is_challenge(event_data)
      THEN challenge_response(event_data, parsedSteps)
      ELSE IF HasKey(event_data, KeyEvent)
      THEN LET inner == Get(event_data, KeyEvent)
           IN  IF inner.t # "dict" THEN Unhandled("TypeError", <<>>, parsedSteps)
               ELSE IF ~HasKey(inner, KeyType) THEN Unhandled("KeyError", <<>>, parsedSteps)
               ELSE IF Get(inner, KeyType).t # "str"
               THEN Unhandled("TypeError", <<>>, Append(parsedSteps, "emit"))
               ELSE make_response(PyStrVal(<<>>), 200, <<PoweredBy(info)>>,
                                  <<emit_event(event_data)>>, Append(parsedSteps, "emit"))
      ELSE \* the view returns None, which the framework refuses
           Unhandled("TypeError", <<>>, parsedSteps)

\* def event()
event(rt, secret, info, now, req) ==
  LET bc == base_checks(rt, secret, now, req)
  IN  IF ~bc.passed THEN bc.rv ELSE event_dispatch(info, req, bc.rv.steps)

\* "payload" in request.form
has_payload(req) == HasKey(request_form(req.body), KeyPayload)

\* the payload emitted on the channel "type"
emit_payload_on_type_key(payload) == EmitCall(KeyType, payload)

\* self.emitter.emit(payload_type, payload), payload_type = payload["type"]
emit_payload(payload) == EmitCall(Get(payload, KeyType).s, payload)

\* the part the interactive and the options view share: the payload field is
\* loaded and emitted on the channel its type names
payload_dispatch(req, steps, body, headers) ==
  LET loaded == json_loads(FormGet(request_form(req.body), KeyPayload))
      payload == loaded.v
      parsedSteps == Append(steps, "parse")
  IN  IF ~loaded.ok THEN Unhandled("JSONDecodeError", <<>>, parsedSteps)
      ELSE IF payload.t # "dict" THEN Unhandled("TypeError", <<>>, parsedSteps)
      ELSE IF ~HasKey(payload, KeyType) THEN Unhandled("KeyError", <<>>, parsedSteps)
      ELSE IF Get(payload, KeyType).t # "str"
      THEN Unhandled("TypeError", <<>>, Append(parsedSteps, "emit"))
      ELSE make_response(body, 200, headers, <<emit_payload(payload)>>,
                         Append(parsedSteps, "emit"))

\* the interactive view after base_checks passed
interactive_dispatch(info, req, steps) ==
  IF has_payload(req)
  THEN payload_dispatch(req, steps, PyStrVal(<<>>), <<PoweredBy(info)>>)
  ELSE make_response(PyStrVal(<<>>), 200, <<>>, <<>>, steps)

\* def interactive()
interactive(rt, secret, info, now, req) ==
  LET bc == base_checks(rt, secret, now, req)
  IN  IF ~bc.passed THEN bc.rv ELSE interactive_dispatch(info, req, bc.rv.steps)

\* the payload field given back as the body
options_body_echo(payload) == PyStrVal(payload)

\* the body the options view answers a payload with: r, whatever the payload
options_body(payload) == OptionsList

\* the options view after base_checks passed
options_dispatch(info, req, steps) ==
  IF has_payload(req)
  THEN payload_dispatch(req, steps,
                        options_body(FormGet(request_form(req.body), KeyPayload)),
                        <<ContentTypeJson, PoweredBy(info)>>)
  ELSE make_response(PyStrVal(<<>>), 200, <<>>, <<>>, steps)

\* def options()
options(rt, secret, info, now, req) ==
  LET bc == base_checks(rt, secret, now, req)
  IN  IF ~bc.passed THEN bc.rv ELSE options_dispatch(info, req, bc.rv.steps)

(***************************************************************************)
(* The requests the model sends.                                           *)
(***************************************************************************)
\* {"challenge":"abc123"}
BodyChallenge ==
  <<"{", Quote, "c", "h", "a", "l", "l", "e", "n", "g", "e", Quote, ":", Quote, "a",
    "b", "c", "1", "2", "3", Quote, "}">>

\* {"challenge":"abc123","event":{"type":"message"}}
BodyChallengeAndEvent ==
  <<"{", Quote, "c", "h", "a", "l", "l", "e", "n", "g", "e", Quote, ":", Quote, "a",
    "b", "c", "1", "2", "3", Quote, ",", Quote, "e", "v", "e", "n", "t", Quote, ":",
    "{", Quote, "t", "y", "p", "e", Quote, ":", Quote, "m", "e", "s", "s", "a", "g",
    "e", Quote, "}", "}">>

\* {"event":{"type":"message","text":"hi"}}
BodyMessage ==
  <<"{", Quote, "e", "v", "e", "n", "t", Quote, ":", "{", Quote, "t", "y", "p", "e",
    Quote, ":", Quote, "m", "e", "s", "s", "a", "g", "e", Quote, ",", Quote, "t", "e",
    "x", "t", Quote, ":", Quote, "h", "i", Quote, "}", "}">>

\* {"type":"event_callback","event":{"type":"app_mention"}}
BodyMention ==
  <<"{", Quote, "t", "y", "p", "e", Quote, ":", Quote, "e", "v", "e", "n", "t", "_",
    "c", "a", "l", "l", "b", "a", "c", "k", Quote, ",", Quote, "e", "v", "e", "n", "t",
    Quote, ":", "{", Quote, "t", "y", "p", "e", Quote, ":", Quote, "a", "p", "p", "_",
    "m", "e", "n", "t", "i", "o", "n", Quote, "}", "}">>

\* {"event": {"type": "error"}}
BodyErrorEvent ==
  <<"{", Quote, "e", "v", "e", "n", "t", Quote, ":", " ", "{", Quote, "t", "y", "p",
    "e", Quote, ":", " ", Quote, "e", "r", "r", "o", "r", Quote, "}", "}">>

\* {"token":"x"}
BodyNeither ==
  <<"{", Quote, "t", "o", "k", "e", "n", Quote, ":", Quote, "x", Quote, "}">>

\* {"event":{}}
BodyEventNoType ==
  <<"{", Quote, "e", "v", "e", "n", "t", Quote, ":", "{", "}", "}">>

\* {"event"
BodyBadJson ==
  <<"{", Quote, "e", "v", "e", "n", "t", Quote>>

\* payload=%7B%22type%22%3A%22block_actions%22%2C%22user%22%3A%22U1%22%7D
FormBlockActions ==
  <<"p", "a", "y", "l", "o", "a", "d", "=", "%", "7", "B", "%", "2", "2", "t", "y",
    "p", "e", "%", "2", "2", "%", "3", "A", "%", "2", "2", "b", "l", "o", "c", "k",
    "_", "a", "c", "t", "i", "o", "n", "s", "%", "2", "2", "%", "2", "C", "%", "2",
    "2", "u", "s", "e", "r", "%", "2", "2", "%", "3", "A", "%", "2", "2", "U", "1",
    "%", "2", "2", "%", "7", "D">>

\* token=x&payload=%7B%22type%22%3A+%22message%22%7D
FormMessage ==
  <<"t", "o", "k", "e", "n", "=", "x", "&", "p", "a", "y", "l", "o", "a", "d", "=",
    "%", "7", "B", "%", "2", "2", "t", "y", "p", "e", "%", "2", "2", "%", "3", "A",
    "+", "%", "2", "2", "m", "e", "s", "s", "a", "g", "e", "%", "2", "2", "%", "7", "D">>

\* payload=%7b%22type%22%3a%22error%22%7d
FormErrorType ==
  <<"p", "a", "y", "l", "o", "a", "d", "=", "%", "7", "b", "%", "2", "2", "t", "y",
    "p", "e", "%", "2", "2", "%", "3", "a", "%", "2", "2", "e", "r", "r", "o", "r",
    "%", "2", "2", "%", "7", "d">>

\* token=x
FormNoPayload ==
  <<"t", "o", "k", "e", "n", "=", "x">>

\* payload=%7B%22type%22
FormBadJson ==
  <<"p", "a", "y", "l", "o", "a", "d", "=", "%", "7", "B", "%", "2", "2", "t", "y",
    "p", "e", "%", "2", "2">>

\* payload=%7B%7D
FormNoType ==
  <<"p", "a", "y", "l", "o", "a", "d", "=", "%", "7", "B", "%", "7", "D">>

\* the empty body
BodyEmpty ==
  <<>>

Bodies ==
  {BodyChallenge, BodyChallengeAndEvent, BodyMessage, BodyMention, BodyErrorEvent,
   BodyNeither, BodyEventNoType, BodyBadJson, FormBlockActions, FormMessage,
   FormErrorType, FormNoPayload, FormBadJson, FormNoType, BodyEmpty}


\* the signing secret of the application, and the secret of somebody else
Secret == <<"s", "3", "c", "r", "3", "t">>

OtherSecret == <<"g", "u", "e", "s", "s">>

\* the seconds, relative to the clock, the timestamp headers are taken at
Offsets == {0 - (Tolerance + 1), 0 - Tolerance, 0, Tolerance, Tolerance + 1}

\* the X-Slack-Request-Timestamp headers sent when the clock shows now: around
\* both ends of the window, one with a sign, one that is no number, and none
Timestamps(now) ==
  {Text(StrInt((now \div TicksPerSecond) + d)) : d \in Offsets}
    \cup {Text(<<"+">> \o StrInt(now \div TicksPerSecond)),
          Text(<<"n", "o", "w">>),
          Absent}

\* s with its last character replaced by c
WithLast(s, c) == SubSeq(s, 1, Len(s) - 1) \o <<c>>

\* the X-Slack-Signature headers sent with a timestamp and a body: the valid
\* one, and what differs from it in the last character, the length, the
\* prefix, the secret or the alphabet, and none
Signatures(secret, timestamp, body) ==
  LET valid == request_hash(secret, timestamp, body)
  IN  {Text(valid),
       Text(WithLast(valid, IF valid[Len(valid)] = "0" THEN "1" ELSE "0")),
       Text(SubSeq(valid, 1, Len(valid) - 1)),
       Text(<<"v", "1", "=">> \o SubSeq(valid, 4, Len(valid))),
       Text(request_hash(OtherSecret, timestamp, body)),
       Text(WithLast(valid, NonAscii)),
       Absent}

Requests(secret, now) ==
  UNION {{[method |-> m, timestamp |-> ts, signature |-> sig, body |-> b] :
            m \in {"GET", "POST"}, sig \in Signatures(secret, ts, b)} :
         ts \in Timestamps(now), b \in Bodies}

(***************************************************************************)
(* The emitter: the registry of listeners and emit, which calls the        *)
(* listeners of a channel in the order of their registration.              *)
(***************************************************************************)
\* the channels the application registers listeners on
ListenerChannels ==
  {<<"m", "e", "s", "s", "a", "g", "e">>,
   <<"b", "l", "o", "c", "k", "_", "a", "c", "t", "i", "o", "n", "s">>,
   ChannelError}

\* emit(channel, arg): the calls of listeners it makes, one after the other in
\* the order of registration; a listener that raises ends the emit, its
\* exception going to the caller of emit
emit(registry, call) ==
  LET on == {i \in 1..Len(registry) : registry[i].channel = call.channel}
      raising == {i \in on : registry[i].raises}
      last == IF raising = {} THEN Len(registry) ELSE Min(raising)
      F[i \in 0..Len(registry)] ==
        IF i = 0 THEN <<>>
        ELSE IF i \in on /\ i <= last
             THEN Append(F[i - 1], [handler |-> registry[i].handler,
                                    channel |-> call.channel, arg |-> call.arg,
                                    raised |-> registry[i].raises])
             ELSE F[i - 1]
  IN  F[Len(registry)]

\* an exception left one of these listener calls
listener_raised(calls) == \E i \in 1..Len(calls) : calls[i].raised

\* the listener calls of the emit calls of one request, in order, up to the
\* emit call a listener's exception ends
emit_all(registry, emits) ==
  LET F[i \in 0..Len(emits)] ==
        IF i = 0 THEN <<>>
        ELSE IF listener_raised(F[i - 1]) THEN F[i - 1]
        ELSE F[i - 1] \o emit(registry, emits[i])
  IN  F[Len(emits)]

\* what a view that made these emit calls gives: self.emitter.emit(...) stands
\* in the view with nothing around it, so an exception that leaves emit leaves
\* the view, and the response the view would have built is never built
after_emit(registry, rv) ==
  IF listener_raised(emit_all(registry, rv.emits))
  THEN Unhandled("ListenerError", rv.emits, rv.steps)
  ELSE rv

(***************************************************************************)
(* The server.                                                             *)
(***************************************************************************)
VARIABLES
  phase,           \* "setup", "idle" (waiting for a request) or "done" (answered)
  runtime,         \* the interpreter
  signing_secret,  \* self.signing_secret
  package_info,    \* self.package_info
  endpoints,       \* the routes bound
  listeners,       \* the emitter's registry, <<[channel, handler], ...>>
  now,             \* time(), in ticks
  endpoint,        \* the route of the request in hand
  req,             \* the request in hand
  resp,            \* its response, with the emit calls and steps of its view
  delivered,       \* the listener calls made for that request
  returned,        \* what a direct call of verify_signature gave
  workers          \* the requests the workers of a concurrent server have in hand

vars ==
  <<phase, runtime, signing_secret, package_info, endpoints, listeners, now, endpoint,
    req, resp, delivered, returned, workers>>

config == <<runtime, signing_secret, package_info, endpoints>>

NoRequest == [method |-> "none", timestamp |-> Absent, signature |-> Absent, body |-> <<>>]

NoResponse == make_response(PyNone, 0, <<>>, <<>>, <<>>)

NotCalled == [ret |-> FALSE, exc |-> "not called", visited |-> 0]

\* SlackServer.__init__
Init ==
  /\ phase = "setup"
  /\ runtime \in Runtimes
  /\ signing_secret = Secret
  /\ package_info = get_package_info(runtime)
  /\ endpoints = {"events", "interactive", "options"}
  /\ listeners = <<>>
  /\ now = Epoch * TicksPerSecond
  /\ endpoint = "none"
  /\ req = NoRequest
  /\ resp = NoResponse
  /\ delivered = <<>>
  /\ returned = NotCalled
  /\ workers = <<>>

\* emitter.on(channel, handler), during the setup of the application
Register(channel) ==
  /\ phase = "setup"
  /\ Len(listeners) < MaxListeners
  /\ listeners' = Append(listeners, [channel |-> channel, handler |-> Len(listeners) + 1,
                                     raises |-> FALSE])
  /\ UNCHANGED <<phase, config, now, endpoint, req, resp, delivered, returned, workers>>

\* emitter.on(channel, handler) with a handler that raises when it is called
RegisterRaising(channel) ==
  /\ phase = "setup"
  /\ Len(listeners) < MaxListeners
  /\ listeners' = Append(listeners, [channel |-> channel, handler |-> Len(listeners) + 1,
                                     raises |-> TRUE])
  /\ UNCHANGED <<phase, config, now, endpoint, req, resp, delivered, returned, workers>>

\* the server starts to take requests
Start ==
  /\ phase = "setup"
  /\ phase' = "idle"
  /\ UNCHANGED <<config, listeners, now, endpoint, req, resp, delivered, returned, workers>>

\* time passes
Tick ==
  /\ phase = "idle"
  /\ now < Epoch * TicksPerSecond + MaxTicks
  /\ now' = now + 1
  /\ UNCHANGED <<phase, config, listeners, endpoint, req, resp, delivered, returned, workers>>

\* a request to a route is handled by its view
Handle(route, r, rv) ==
  /\ route \in endpoints
  /\ phase' = "done"
  /\ endpoint' = route
  /\ req' = r
  /\ resp' = after_emit(listeners, rv)
  /\ delivered' = emit_all(listeners, rv.emits)
  /\ UNCHANGED <<config, listeners, now, returned, workers>>

EventsEndpoint ==
  /\ phase = "idle"
  /\ \E r \in Requests(signing_secret, now) :
       Handle("events", r, event(runtime, signing_secret, package_info, now, r))

InteractiveEndpoint ==
  /\ phase = "idle"
  /\ \E r \in Requests(signing_secret, now) :
       Handle("interactive", r, interactive(runtime, signing_secret, package_info, now, r))

OptionsEndpoint ==
  /\ phase = "idle"
  /\ \E r \in Requests(signing_secret, now) :
       Handle("options", r, options(runtime, signing_secret, package_info, now, r))

\* the response is sent and the request context is gone
Finish ==
  /\ phase = "done"
  /\ phase' = "idle"
  /\ endpoint' = "none"
  /\ req' = NoRequest
  /\ resp' = NoResponse
  /\ delivered' = <<>>
  /\ UNCHANGED <<config, listeners, now, returned, workers>>

Next ==
  \/ \E channel \in ListenerChannels : Register(channel)
  \/ Start
  \/ Tick
  \/ EventsEndpoint
  \/ InteractiveEndpoint
  \/ OptionsEndpoint
  \/ Finish

Spec == Init /\ [][Next]_vars

(***************************************************************************)
(* The server of an application whose listeners raise.                     *)
(***************************************************************************)
NextRaising ==
  \/ \E channel \in ListenerChannels : RegisterRaising(channel)
  \/ Start
  \/ Tick
  \/ EventsEndpoint
  \/ InteractiveEndpoint
  \/ OptionsEndpoint
  \/ Finish

SpecRaising == Init /\ [][NextRaising]_vars

(***************************************************************************)
(* The server behind a host that handles several requests at a time: each  *)
(* worker runs a view in its own request context, and the workers' steps   *)
(* interleave.                                                             *)
(***************************************************************************)
Workers == 1..MaxWorkers

\* a worker with no request: route and req are its request context, at the
\* time() its base_checks read, rv what its view has built so far, calls the
\* listener calls made for it
Idle ==
  [pc |-> "idle", route |-> "none", req |-> NoRequest, at |-> 0, rv |-> NoResponse,
   calls |-> <<>>]

\* one request object for the whole process: that of the first busy worker
request_of_the_process(ws, w) == ws[Min({v \in Workers : ws[v].pc # "idle"})].req

\* flask.request in a view: the request of the context of the worker that
\* runs the view
request(ws, w) == ws[w].req

\* the requests the workers are given when the clock shows clock, each with
\* its route
ConcurrentCalls(secret, clock) ==
  LET fresh == Text(StrInt(clock \div TicksPerSecond))
      stale == Text(StrInt((clock \div TicksPerSecond) - (Tolerance + 1)))
      Post(ts, sig, b) == [method |-> "POST", timestamp |-> ts, signature |-> sig, body |-> b]
      Signed(ts, b) == Post(ts, Text(request_hash(secret, ts, b)), b)
  IN  {[route |-> "events", req |-> Signed(fresh, BodyMessage)],
       [route |-> "events", req |-> Signed(stale, BodyMessage)],
       [route |-> "events",
        req |-> Post(fresh, Text(request_hash(OtherSecret, fresh, BodyErrorEvent)),
                     BodyErrorEvent)],
       [route |-> "interactive", req |-> Signed(fresh, FormMessage)],
       [route |-> "interactive", req |-> Signed(Absent, FormNoPayload)],
       [route |-> "options", req |-> Signed(fresh, FormBlockActions)],
       [route |-> "options",
        req |-> [method |-> "GET", timestamp |-> Absent, signature |-> Absent,
                 body |-> BodyEmpty]]}

InitConcurrent ==
  /\ phase = "idle"
  /\ runtime \in Runtimes
  /\ signing_secret = Secret
  /\ package_info = get_package_info(runtime)
  /\ endpoints = {"events", "interactive", "options"}
  /\ \E channel \in ListenerChannels :
       listeners = <<[channel |-> channel, handler |-> 1, raises |-> FALSE]>>
  /\ now = Epoch * TicksPerSecond
  /\ endpoint = "none"
  /\ req = NoRequest
  /\ resp = NoResponse
  /\ delivered = <<>>
  /\ returned = NotCalled
  /\ workers = [w \in Workers |-> Idle]

\* the host gives a request to a worker and pushes its request context
Accept(w) ==
  /\ phase = "idle"
  /\ workers[w].pc = "idle"
  /\ \E c \in ConcurrentCalls(signing_secret, now) :
       /\ c.route \in endpoints
       /\ workers' = [workers EXCEPT ![w] = [Idle EXCEPT !.pc = "accepted",
                                                         !.route = c.route,
                                                         !.req = c.req]]
  /\ UNCHANGED <<phase, config, listeners, now, endpoint, req, resp, delivered, returned>>

\* bc = base_checks(), in the view of worker w
RunBaseChecks(w) ==
  /\ workers[w].pc = "accepted"
  /\ LET bc == base_checks(runtime, signing_secret, now, request(workers, w))
     IN  workers' =
           [workers EXCEPT
              ![w].pc = IF bc.passed THEN "checked" ELSE "answering",
              ![w].at = now,
              ![w].rv = IF bc.passed THEN bc.rv ELSE after_emit(listeners, bc.rv),
              ![w].calls = emit_all(listeners, bc.rv.emits)]
  /\ UNCHANGED <<phase, config, listeners, now, endpoint, req, resp, delivered, returned>>

\* the rest of the view of worker w, after "if bc is not True: return bc"
RunView(w) ==
  /\ workers[w].pc = "checked"
  /\ LET r == request(workers, w)
         steps == workers[w].rv.steps
         rv == IF workers[w].route = "events"
               THEN event_dispatch(package_info, r, steps)
               ELSE IF workers[w].route = "interactive"
               THEN interactive_dispatch(package_info, r, steps)
               ELSE options_dispatch(package_info, r, steps)
     IN  workers' =
           [workers EXCEPT
              ![w].pc = "answering",
              ![w].rv = after_emit(listeners, rv),
              ![w].calls = emit_all(listeners, rv.emits)]
  /\ UNCHANGED <<phase, config, listeners, now, endpoint, req, resp, delivered, returned>>

\* the response of worker w is sent and its request context popped
Respond(w) ==
  /\ workers[w].pc = "answering"
  /\ workers' = [workers EXCEPT ![w] = Idle]
  /\ UNCHANGED <<phase, config, listeners, now, endpoint, req, resp, delivered, returned>>

NextConcurrent ==
  \/ \E w \in Workers : Accept(w)
  \/ \E w \in Workers : RunBaseChecks(w)
  \/ \E w \in Workers : RunView(w)
  \/ \E w \in Workers : Respond(w)

SpecConcurrent == InitConcurrent /\ [][NextConcurrent]_vars

(***************************************************************************)
(* verify_signature called on its own, on each interpreter.                *)
(***************************************************************************)
\* the characters a signature is varied with
VariedWith == {"0", "f", "v", "=", NonAscii}

\* the signatures a call is made with: the valid one, every one that differs
\* from it in one character, a shorter and a longer one, the empty one, none
CallSignatures(valid) ==
  {Text(valid), Text(SubSeq(valid, 1, Len(valid) - 1)), Text(valid \o <<"0">>),
   Text(<<>>), Absent}
    \cup {Text([valid EXCEPT ![i] = c]) : i \in 1..Len(valid), c \in VariedWith}

CallTimestamps == {Text(<<"1", "0", "0", "0">>), Text(<<"+", "1", "0", "0", "0">>)}

CallBodies == {BodyChallenge, FormMessage, BodyEmpty}

InitVerify ==
  /\ phase = "call"
  /\ runtime \in Runtimes
  /\ signing_secret \in {Secret, OtherSecret}
  /\ package_info = get_package_info(runtime)
  /\ endpoints = {"events", "interactive", "options"}
  /\ listeners = <<>>
  /\ now = Epoch * TicksPerSecond
  /\ endpoint = "none"
  /\ \E ts \in CallTimestamps, b \in CallBodies :
       \E sig \in CallSignatures(request_hash(signing_secret, ts, b)) :
         req = [method |-> "POST", timestamp |-> ts, signature |-> sig, body |-> b]
  /\ resp = NoResponse
  /\ delivered = <<>>
  /\ returned = NotCalled
  /\ workers = <<>>

\* self.verify_signature(req_timestamp, req_signature)
VerifyCall ==
  /\ phase = "call"
  /\ phase' = "returned"
  /\ returned' = verify_signature(runtime, signing_secret, req.timestamp, req.signature,
                                  req.body)
  /\ UNCHANGED <<config, listeners, now, endpoint, req, resp, delivered, workers>>

NextVerify == VerifyCall

SpecVerify == InitVerify /\ [][NextVerify]_vars

(***************************************************************************)
(* The vocabulary of the properties, stated on the request as it was sent. *)
(***************************************************************************)
Abs(x) == IF x < 0 THEN 0 - x ELSE x

\* the seconds around the centre and around both ends of the window
NearSeconds(clock) ==
  {(clock \div TicksPerSecond) + sign * (base + d) :
     sign \in {0 - 1, 1}, base \in {0, Tolerance}, d \in 0..2}

\* the header is the decimal form of n, with or without a plus sign
Denotes(h, n) == h.present /\ (h.s = StrInt(n) \/ h.s = <<"+">> \o StrInt(n))

\* the distance, in ticks, between the clock and second n
Away(clock, n) == Abs(clock - n * TicksPerSecond)

Fresh(r, clock) ==
  \E n \in NearSeconds(clock) :
    Denotes(r.timestamp, n) /\ Away(clock, n) <= Tolerance * TicksPerSecond

Stale(r, clock) ==
  \E n \in NearSeconds(clock) :
    Denotes(r.timestamp, n) /\ Away(clock, n) > Tolerance * TicksPerSecond

\* "v0=" + hex(HMAC(secret, "v0:" + timestamp + ":" + raw body)), the timestamp
\* as it was received
ExpectedSignature(secret, r) ==
  <<"v", "0", "=">>
    \o hexdigest(Encode(secret),
                 <<Ord("v"), Ord("0"), Ord(":")>> \o Encode(r.timestamp.s) \o <<Ord(":")>>
                   \o get_data(r.body))

SignatureMatches(r) == r.signature = Text(ExpectedSignature(signing_secret, r))

\* a POST that is fresh and correctly signed
Verified(r) == r.method = "POST" /\ Fresh(r, now) /\ SignatureMatches(r)

\* a request has been answered
Answered == phase = "done"

\* the emit calls of the request that carry a payload, and those that carry a
\* verification error on the "error" channel
PayloadEmits == {i \in 1..Len(resp.emits) : resp.emits[i].arg.t # "exception"}

ErrorEmits ==
  {i \in 1..Len(resp.emits) :
     /\ resp.emits[i].channel = ChannelError
     /\ resp.emits[i].arg.t = "exception"
     /\ resp.emits[i].arg.cls = "SlackEventAdapterException"}

EmptyBody == resp.body = [t |-> "str", s |-> <<>>]

\* base_checks refused the request for its timestamp
TimestampRefused ==
  /\ resp.status = 403
  /\ Len(resp.emits) = 1
  /\ resp.emits[1].arg.t = "exception"
  /\ resp.emits[1].arg.msg = "Invalid request timestamp"

(***************************************************************************)
(* The bodies of the requests, as the values they hold.                    *)
(***************************************************************************)
Str(s) == [t |-> "str", s |-> s]

Dict(m) == [t |-> "dict", m |-> m]

NameMessage == <<"m", "e", "s", "s", "a", "g", "e">>

NameMention == <<"a", "p", "p", "_", "m", "e", "n", "t", "i", "o", "n">>

NameBlockActions == <<"b", "l", "o", "c", "k", "_", "a", "c", "t", "i", "o", "n", "s">>

ChallengeValue == <<"a", "b", "c", "1", "2", "3">>

\* the bodies that hold a challenge field
ChallengeBodies == {BodyChallenge, BodyChallengeAndEvent}

\* the bodies that hold an event field and no challenge field
EventBodies == {BodyMessage, BodyMention, BodyErrorEvent, BodyEventNoType}

\* those of them whose event carries a type
TypedEventBodies == {BodyMessage, BodyMention, BodyErrorEvent}

\* the channel and the envelope of a body whose event carries a type
EventOf(body) ==
  IF body = BodyMessage
  THEN [channel |-> NameMessage,
        envelope |->
          Dict(<<[k |-> KeyEvent,
                  v |-> Dict(<<[k |-> KeyType, v |-> Str(NameMessage)],
                               [k |-> <<"t", "e", "x", "t">>, v |-> Str(<<"h", "i">>)]>>)]>>)]
  ELSE IF body = BodyMention
  THEN [channel |-> NameMention,
        envelope |->
          Dict(<<[k |-> KeyType,
                  v |-> Str(<<"e", "v", "e", "n", "t", "_", "c", "a", "l", "l", "b", "a",
                              "c", "k">>)],
                 [k |-> KeyEvent, v |-> Dict(<<[k |-> KeyType, v |-> Str(NameMention)]>>)]>>)]
  ELSE [channel |-> ChannelError,
        envelope |->
          Dict(<<[k |-> KeyEvent, v |-> Dict(<<[k |-> KeyType, v |-> Str(ChannelError)]>>)]>>)]

\* the bodies whose form holds a payload field
PayloadBodies == {FormBlockActions, FormMessage, FormErrorType, FormBadJson, FormNoType}

\* those of them whose payload is a JSON object that carries a type
TypedPayloadBodies == {FormBlockActions, FormMessage, FormErrorType}

\* the channel and the parsed payload of such a body
PayloadOf(body) ==
  IF body = FormBlockActions
  THEN [channel |-> NameBlockActions,
        payload |-> Dict(<<[k |-> KeyType, v |-> Str(NameBlockActions)],
                           [k |-> <<"u", "s", "e", "r">>, v |-> Str(<<"U", "1">>)]>>)]
  ELSE IF body = FormMessage
  THEN [channel |-> NameMessage,
        payload |-> Dict(<<[k |-> KeyType, v |-> Str(NameMessage)]>>)]
  ELSE [channel |-> ChannelError,
        payload |-> Dict(<<[k |-> KeyType, v |-> Str(ChannelError)]>>)]

\* the option list of the options endpoint
FixedOptions ==
  [t |-> "list",
   items |-> <<[text |-> [type |-> "plain_text", text |-> "1:Many Internal"],
                value |-> "1:Many Internal"],
               [text |-> [type |-> "plain_text", text |-> "1:many Argentina"],
                value |-> "1:many Argentina"]>>]

(***************************************************************************)
(* Properties of the pipeline.                                             *)
(***************************************************************************)
\* C1: on every endpoint, a request for which a payload was emitted is no GET,
\* its timestamp was within the window and its signature the expected one,
\* and both checks ran before anything was parsed or emitted.
DispatchOnlyAfterBothChecks ==
  (Answered /\ PayloadEmits # {}) =>
    /\ req.method # "GET"
    /\ Fresh(req, now)
    /\ SignatureMatches(req)
    /\ SubSeq(resp.steps, 1, 3) = <<"method", "timestamp", "signature">>

\* a payload was dispatched on each of the three endpoints' terms: here on options
DispatchedAfterChecks ==
  /\ Answered
  /\ endpoint = "options"
  /\ PayloadEmits # {}
  /\ Verified(req)

BadSignatureRefused ==
  (Answered /\ req.method = "POST" /\ Fresh(req, now)
     /\ req.signature.present /\ ~SignatureMatches(req)) =>
    /\ resp.status = 403
    /\ EmptyBody
    /\ ErrorEmits # {}
    /\ PayloadEmits = {}

\* C4: a GET is answered 404 whatever it carries, and nothing is emitted:
\* no emit call is made and no listener is called.
GetIsNotFound ==
  (Answered /\ req.method = "GET") =>
    /\ resp.status = 404
    /\ resp.emits = <<>>
    /\ delivered = <<>>

\* a GET with a stale timestamp was answered while an error listener waits
StaleGetAnswered ==
  /\ Answered
  /\ req.method = "GET"
  /\ Stale(req, now)
  /\ Len(listeners) > 0
  /\ listeners[1].channel = ChannelError
  /\ resp.status = 404

\* C6: the timestamp check refuses a POST exactly when its timestamp is more
\* than 300 seconds away from the clock, in the past or in the future.
WindowIsInclusive ==
  (Answered /\ req.method = "POST") =>
    \A n \in NearSeconds(now) :
      Denotes(req.timestamp, n) =>
        (TimestampRefused <=> Away(now, n) > Tolerance * TicksPerSecond)

\* a timestamp exactly 300 seconds old passed the timestamp check
BoundaryAccepted ==
  /\ Answered
  /\ req.method = "POST"
  /\ \E n \in NearSeconds(now) :
       /\ Denotes(req.timestamp, n)
       /\ now - n * TicksPerSecond = Tolerance * TicksPerSecond
  /\ ~TimestampRefused
  /\ Len(resp.steps) >= 3

\* C7: on the events endpoint a verified POST whose body holds a challenge is
\* answered 200 with the value of the challenge as its body, and nothing is
\* emitted and no listener called, also when the body holds an event too.
ChallengeEchoed ==
  (Answered /\ endpoint = "events" /\ Verified(req) /\ req.body \in ChallengeBodies) =>
    /\ resp.status = 200
    /\ resp.body = Str(ChallengeValue)
    /\ resp.emits = <<>>
    /\ delivered = <<>>

\* a challenge that came with an event was echoed while a listener for the
\* type of that event is registered
ChallengeWithEventEchoed ==
  /\ Answered
  /\ endpoint = "events"
  /\ Verified(req)
  /\ req.body = BodyChallengeAndEvent
  /\ Len(listeners) > 0
  /\ listeners[1].channel = NameMessage
  /\ resp.status = 200

EveryPayloadGetsTheOptions ==
  (Answered /\ endpoint = "options" /\ Verified(req) /\ req.body \in PayloadBodies) =>
    resp.body = FixedOptions

\* C10: on the options endpoint a verified POST whose payload field holds a
\* JSON object that carries a type is answered 200 with the same fixed list of
\* options, whatever the payload holds, whichever listeners are registered and
\* whatever they do, so that two such requests get the same body; the payload
\* is emitted on the channel its type names.
TypedPayloadGetsTheOptions ==
  (Answered /\ endpoint = "options" /\ Verified(req) /\ req.body \in TypedPayloadBodies) =>
    /\ resp.status = 200
    /\ resp.body = FixedOptions
    /\ resp.emits = <<[channel |-> PayloadOf(req.body).channel,
                       arg |-> PayloadOf(req.body).payload]>>

\* the options were given for a payload of another type than block_actions,
\* while a listener is registered
OptionsGivenWithListener ==
  /\ Answered
  /\ endpoint = "options"
  /\ Verified(req)
  /\ req.body = FormErrorType
  /\ Len(listeners) > 0
  /\ resp.body = FixedOptions

\* C5: verify_signature returns true exactly when the signature is "v0=" and
\* the hex digest of the secret over "v0:", the timestamp, ":" and the raw
\* body, and the path of hmac.compare_digest and the path of the explicit
\* comparison give the same result for the same call.
VerifyIffExpectedOnBothPaths ==
  (phase = "returned" /\ req.signature.present) =>
    /\ returned.ret <=> (req.signature.s = ExpectedSignature(signing_secret, req))
    /\ LET new == verify_signature("py3", signing_secret, req.timestamp, req.signature,
                                    req.body)
           old == verify_signature("py276", signing_secret, req.timestamp, req.signature,
                                    req.body)
       IN  new.ret = old.ret /\ new.exc = old.exc

\* C11: a POST whose X-Slack-Request-Timestamp is missing or is no number is
\* answered 403 with a verification error emitted on the "error" channel and
\* no payload emitted; it does not end in an unhandled exception.
BadTimestampHeaderRefused ==
  (Answered /\ req.method = "POST"
     /\ req.timestamp \in {Absent, Text(<<"n", "o", "w">>)}) =>
    /\ resp.exc = "none"
    /\ resp.status = 403
    /\ ErrorEmits = {1}
    /\ PayloadEmits = {}

\* the signature header is missing, one character short, or carries another
\* prefix than "v0="
MalformedSignature(r) ==
  LET expected == ExpectedSignature(signing_secret, r)
  IN  r.signature \in {Absent,
                       Text(SubSeq(expected, 1, Len(expected) - 1)),
                       Text(<<"v", "1", "=">> \o SubSeq(expected, 4, Len(expected)))}

\* C12: a POST with a fresh timestamp whose X-Slack-Signature is missing or
\* malformed is a verification failure: nothing is raised, a verification
\* error is emitted on the "error" channel and the answer is 403.
MalformedSignatureRefused ==
  (Answered /\ req.method = "POST" /\ Fresh(req, now) /\ MalformedSignature(req)) =>
    /\ resp.exc = "none"
    /\ resp.status = 403
    /\ ErrorEmits = {1}
    /\ PayloadEmits = {}

\* C13: the "error" channel is reserved: whatever is emitted on it is a
\* verification error, never a parsed payload, also when a verified payload
\* gives "error" as its own type.
ErrorChannelReserved ==
  Answered =>
    \A i \in 1..Len(resp.emits) :
      resp.emits[i].channel = ChannelError =>
        /\ resp.emits[i].arg.t = "exception"
        /\ resp.emits[i].arg.cls = "SlackEventAdapterException"

\* C14: a listener that fails does not change the answer: the request gets
\* 403 after the dispatch of a verification error and 200 after the dispatch
\* of a payload.
ListenerFailureIsolated ==
  (Answered /\ listener_raised(delivered)) =>
    resp.status = (IF ErrorEmits # {} THEN 403 ELSE 200)

\* the signatures of the length and the alphabet of sig among those a call is
\* made with
SameShape(sig) ==
  {other \in CallSignatures(ExpectedSignature(signing_secret, req)) :
     /\ other.present
     /\ Len(other.s) = Len(sig.s)
     /\ IsAscii(other.s) = IsAscii(sig.s)}

\* C15: the number of positions verify_signature compares is the same for all
\* signatures of one length, wherever they first differ from the expected
\* one; the explicit comparison visits every position of a signature of the
\* expected length, and on another length it returns false having visited
\* none.
ComparisonIsConstantTime ==
  (phase = "returned" /\ req.signature.present) =>
    LET expected == ExpectedSignature(signing_secret, req)
    IN  /\ \A other \in SameShape(req.signature) :
             verify_signature(runtime, signing_secret, req.timestamp, other,
                              req.body).visited = returned.visited
        /\ Len(req.signature.s) # Len(expected) =>
             (returned.exc = "none" /\ ~returned.ret)
        /\ runtime = "py276" =>
             returned.visited
               = (IF Len(req.signature.s) = Len(expected) THEN Len(expected) ELSE 0)

\* the explicit comparison went through a signature that differs from the
\* expected one in its first character only
FirstCharacterDiffers ==
  /\ phase = "returned"
  /\ runtime = "py276"
  /\ req.signature.present
  /\ LET expected == ExpectedSignature(signing_secret, req)
     IN  /\ Len(req.signature.s) = Len(expected)
         /\ req.signature.s[1] # expected[1]
         /\ SubSeq(req.signature.s, 2, Len(expected)) = SubSeq(expected, 2, Len(expected))
         /\ returned.visited = Len(expected)
  /\ ~returned.ret

\* the steps of a view, in the order the pipeline prescribes
PipelineOrder == <<"method", "timestamp", "signature", "parse", "emit">>

\* step s is among the steps of the request in hand
Took(s) == \E i \in 1..Len(resp.steps) : resp.steps[i] = s

\* C16: the steps of a POST come in the order timestamp check, signature
\* check, parsing, dispatch; when the timestamp is bad the signature is never
\* evaluated and the one error emitted is "Invalid request timestamp", also
\* with a bad signature; the body of a request that fails either check is
\* never parsed, and the request is answered 403 whatever its body.
ChecksBeforeParsing ==
  (Answered /\ req.method = "POST") =>
    /\ resp.steps = SubSeq(PipelineOrder, 1, Len(resp.steps))
    /\ ~Fresh(req, now) => (~Took("signature") /\ TimestampRefused)
    /\ (~Fresh(req, now) \/ ~SignatureMatches(req)) =>
         (~Took("parse") /\ resp.status = 403)

\* C17: on the events endpoint a verified POST whose JSON body holds neither
\* a challenge nor an event is answered 200 with an empty body, and nothing
\* is emitted.
NeitherFieldAnswered ==
  (Answered /\ endpoint = "events" /\ Verified(req) /\ req.body = BodyNeither) =>
    /\ resp.emits = <<>>
    /\ resp.status = 200
    /\ EmptyBody

\* the X-Slack-Powered-By headers of the response
PoweredByHeaders ==
  {i \in 1..Len(resp.headers) : resp.headers[i].name = "X-Slack-Powered-By"}

NoPayloadNoHeader ==
  /\ Answered
  /\ endpoint = "interactive"
  /\ Verified(req)
  /\ req.body = FormNoPayload
  /\ resp.status = 200
  /\ PoweredByHeaders = {}

\* the emit calls of the request on the "error" channel
ErrorChannelEmits == {i \in 1..Len(resp.emits) : resp.emits[i].channel = ChannelError}

\* C19: a request makes at most one emit call, either one on the "error"
\* channel, and is then answered 403, or at most one of its payload on one
\* channel; it is answered 403 exactly when it made one emit on "error".
AtMostOneEmitPerRequest ==
  Answered =>
    /\ Len(resp.emits) <= 1
    /\ resp.status = 403 <=> Cardinality(ErrorChannelEmits) = 1

\* the view of a route run from its first line to its last on one request
HandledAlone(route, clock, r) ==
  IF route = "events" THEN event(runtime, signing_secret, package_info, clock, r)
  ELSE IF route = "interactive"
  THEN interactive(runtime, signing_secret, package_info, clock, r)
  ELSE options(runtime, signing_secret, package_info, clock, r)

====
